---- MODULE Spec2Model ----
(***************************************************************************)
(* Direct Connect virtual interface helpers (aws/dx_vif.go): the refresh   *)
(* function, the read and delete operations and the two state waiters,     *)
(* together with the state-change poller (resource.StateChangeConf         *)
(* .WaitForState) they drive.  Time is counted in seconds.                 *)
(***************************************************************************)
EXTENDS Integers, Sequences, FiniteSets, TLC

----------------------------------------------------------------------------
(* Bounds of the model *)

\* the largest configured create/delete timeout, in seconds
MaxTimeout == 21
\* how far above minInterval the adaptive sleep may go, in seconds
MaxBackoff == 1

----------------------------------------------------------------------------
(* Program constants *)

\* Delay: 10 * time.Second
Delay == 10
\* MinTimeout: 5 * time.Second
MinTimeout == 5

\* the resources the host manages
VifIds == {"dxvif-a", "dxvif-b"}

\* directconnect.VirtualInterfaceState* as used by the file
StateAvailable  == "available"
StateConfirming == "confirming"
StateDeleted    == "deleted"
StateDeleting   == "deleting"
StateDown       == "down"
StatePending    == "pending"
StateRejected   == "rejected"
StateVerifying  == "verifying"
\* directconnect.ConnectionStateDeleted, which the refresh function returns
\* for an empty list
ConnectionStateDeleted == "deleted"

VifStates == {StateAvailable, StateConfirming, StateDeleted, StateDeleting,
              StateDown, StatePending, StateRejected, StateVerifying}

\* what the backing store holds for one identifier: a virtual interface in one
\* of the states, one whose state field is unset (aws.StringValue gives ""),
\* or nothing at all
Absent == "absent"
CloudStates == VifStates \cup {"", Absent}

\* the configured timeouts (d.Timeout) the model draws from
Timeouts == {MinTimeout, Delay, Delay + MinTimeout + 2, MaxTimeout}

----------------------------------------------------------------------------
(* Values *)

NoErr == [code |-> "", message |-> ""]
ErrNoSuchVif  == [code |-> "DirectConnectClientException", message |-> "does not exist"]
ErrClient     == [code |-> "DirectConnectClientException", message |-> "invalid"]
ErrServer     == [code |-> "DirectConnectServerException", message |-> "does not exist"]
ApiErrors == {ErrNoSuchVif, ErrClient, ErrServer}

TimeoutError == [code |-> "TimeoutError", message |-> ""]
UnexpectedStateError(s) == [code |-> "UnexpectedStateError", message |-> s]

NoObject == [nil |-> TRUE, VirtualInterfaceId |-> "", VirtualInterfaceState |-> ""]
Vif(id, s) == [nil |-> FALSE, VirtualInterfaceId |-> id, VirtualInterfaceState |-> s]

\* a DescribeVirtualInterfaces / DeleteVirtualInterface outcome
ApiOutput(vifs, err) == [VirtualInterfaces |-> vifs, err |-> err]
NoOutput == ApiOutput(<<>>, NoErr)

\* the answers the API can give for identifier id while the store holds c
DescribeOutputs(id, c) ==
    {ApiOutput(<<>>, e) : e \in ApiErrors \ {ErrNoSuchVif}}
    \cup (IF c = Absent
          THEN {ApiOutput(<<>>, ErrNoSuchVif), ApiOutput(<<>>, NoErr)}
          ELSE {ApiOutput(<<Vif(id, c)>>, NoErr),
                ApiOutput(<<Vif(id, c), Vif(id, StateDeleted)>>, NoErr)})

RefreshResult(obj, state, err) == [object |-> obj, state |-> state, err |-> err]
NoResult == RefreshResult(NoObject, "", NoErr)

----------------------------------------------------------------------------
(* Pure functions of the file *)

\* the not-found test looking at the error code alone
isNoSuchDxVirtualInterfaceErrCodeOnly(err) ==
    err.code = "DirectConnectClientException"

\* isAWSErr(err, "DirectConnectClientException", "does not exist")
isNoSuchDxVirtualInterfaceErr(err) ==
    /\ err.code = "DirectConnectClientException"
    /\ err.message = "does not exist"

\* the refresh closure without the not-found mapping
StateRefreshNotFoundIsError(out) ==
    IF out.err # NoErr
    THEN RefreshResult(NoObject, "", out.err)
    ELSE IF Len(out.VirtualInterfaces) < 1
         THEN RefreshResult(NoObject, ConnectionStateDeleted, NoErr)
         ELSE RefreshResult(out.VirtualInterfaces[1],
                            out.VirtualInterfaces[1].VirtualInterfaceState, NoErr)

\* the refresh closure reporting an empty list with no state
StateRefreshEmptyNoState(out) ==
    IF out.err # NoErr
    THEN IF isNoSuchDxVirtualInterfaceErr(out.err)
         THEN RefreshResult(NoObject, StateDeleted, NoErr)
         ELSE RefreshResult(NoObject, "", out.err)
    ELSE IF Len(out.VirtualInterfaces) < 1
         THEN RefreshResult(NoObject, "", NoErr)
         ELSE RefreshResult(out.VirtualInterfaces[1],
                            out.VirtualInterfaces[1].VirtualInterfaceState, NoErr)

\* the refresh closure taking the last interface of the list, not the first
StateRefreshLast(out) ==
    IF out.err # NoErr
    THEN IF isNoSuchDxVirtualInterfaceErr(out.err)
         THEN RefreshResult(NoObject, StateDeleted, NoErr)
         ELSE RefreshResult(NoObject, "", out.err)
    ELSE IF Len(out.VirtualInterfaces) < 1
         THEN RefreshResult(NoObject, ConnectionStateDeleted, NoErr)
         ELSE RefreshResult(out.VirtualInterfaces[Len(out.VirtualInterfaces)],
                            out.VirtualInterfaces[Len(out.VirtualInterfaces)]
                                .VirtualInterfaceState, NoErr)

\* the refresh closure taking every describe error for not-found
StateRefreshErrorIsDeleted(out) ==
    IF out.err # NoErr
    THEN RefreshResult(NoObject, StateDeleted, NoErr)
    ELSE IF Len(out.VirtualInterfaces) < 1
         THEN RefreshResult(NoObject, ConnectionStateDeleted, NoErr)
         ELSE RefreshResult(out.VirtualInterfaces[1],
                            out.VirtualInterfaces[1].VirtualInterfaceState, NoErr)

\* the closure returned by dxVirtualInterfaceStateRefresh, applied to the
\* answer of its DescribeVirtualInterfaces call
StateRefresh(out) ==
    IF out.err # NoErr
    THEN IF isNoSuchDxVirtualInterfaceErr(out.err)
         THEN RefreshResult(NoObject, StateDeleted, NoErr)
         ELSE RefreshResult(NoObject, "", out.err)
    ELSE IF Len(out.VirtualInterfaces) < 1
         THEN RefreshResult(NoObject, ConnectionStateDeleted, NoErr)
         ELSE RefreshResult(out.VirtualInterfaces[1],
                            out.VirtualInterfaces[1].VirtualInterfaceState, NoErr)

\* the refresh closure describing one fixed identifier
RefreshQueryIdShared(vifId) == "dxvif-a"

\* the identifier dxVirtualInterfaceStateRefresh(conn, vifId) puts in its
\* DescribeVirtualInterfacesInput
RefreshQueryId(vifId) == vifId

PollSpec(pending, target, timeout, delay, minInterval) ==
    [pending |-> pending, target |-> target, timeout |-> timeout,
     initialDelay |-> delay, minInterval |-> minInterval]
NoSpec == PollSpec({}, {}, 0, 0, 0)

\* deleteStateConf with Delay and MinTimeout exchanged
DeleteStateConfSwappedDelay(timeouts) ==
    PollSpec({StateAvailable, StateConfirming, StateDeleting, StateDown,
              StatePending, StateRejected, StateVerifying},
             {StateDeleted}, timeouts.delete, MinTimeout, Delay)

\* deleteStateConf with every state of the enumeration listed as pending
DeleteStateConfAllPending(timeouts) ==
    PollSpec(VifStates, {StateDeleted}, timeouts.delete, Delay, MinTimeout)

\* deleteStateConf waiting for "deleting" instead of "deleted"
DeleteStateConfTargetDeleting(timeouts) ==
    PollSpec({StateAvailable, StateConfirming, StateDeleting, StateDown,
              StatePending, StateRejected, StateVerifying},
             {StateDeleting}, timeouts.delete, Delay, MinTimeout)

\* deleteStateConf taking the states dxVirtualInterfaceRead treats as gone
\* for its target
DeleteStateConfTerminalTarget(timeouts) ==
    PollSpec({StateAvailable, StateConfirming, StateDown, StatePending,
              StateVerifying},
             {StateDeleted, StateDeleting, StateRejected},
             timeouts.delete, Delay, MinTimeout)

\* deleteStateConf of dxVirtualInterfaceDelete; timeouts is d's timeout table
DeleteStateConf(timeouts) ==
    PollSpec({StateAvailable, StateConfirming, StateDeleting, StateDown,
              StatePending, StateRejected, StateVerifying},
             {StateDeleted}, timeouts.delete, Delay, MinTimeout)

\* stateConf built without MinTimeout
AvailableStateConfNoMinTimeout(pending, target, timeouts) ==
    PollSpec(pending, target, timeouts.create, Delay, 0)

\* stateConf built with the delete timeout instead of the create timeout
AvailableStateConfDeleteTimeout(pending, target, timeouts) ==
    PollSpec(pending, target, timeouts.delete, Delay, MinTimeout)

\* stateConf of dxVirtualInterfaceWaitUntilAvailable
AvailableStateConf(pending, target, timeouts) ==
    PollSpec(pending, target, timeouts.create, Delay, MinTimeout)

\* the pending/target arguments the create paths pass
WaitArgs ==
    {[pending |-> {StatePending}, target |-> {StateAvailable, StateDown}],
     [pending |-> {StateConfirming, StatePending},
      target |-> {StateAvailable, StateDown, StateVerifying}]}

\* terminalStates holding the deleted state alone
TerminalStatesDeletedOnly == {StateDeleted}

\* terminalStates of dxVirtualInterfaceRead
TerminalStates == {StateDeleted, StateDeleting, StateRejected}

----------------------------------------------------------------------------
(* The poller: classification of one refresh result *)

\* what the poller does with a refresh result: "fail", "done", "unexpected"
\* or "continue"
Classify(spec, res) ==
    IF res.err # NoErr THEN "fail"
    ELSE IF res.state \in spec.target THEN "done"
    ELSE IF res.state \notin spec.pending THEN "unexpected"
    ELSE "continue"

PollReturn(obj, err) == [object |-> obj, err |-> err]
NoReturn == PollReturn(NoObject, NoErr)

\* the (object, error) a classified result makes Poll return
PollOutcome(spec, res) ==
    CASE Classify(spec, res) = "fail" -> PollReturn(NoObject, res.err)
      [] Classify(spec, res) = "done" -> PollReturn(res.object, NoErr)
      [] Classify(spec, res) = "unexpected" ->
             PollReturn(NoObject, UnexpectedStateError(res.state))
      [] OTHER -> NoReturn

\* the sleeps the poller may take between two refreshes
SleepIntervals(spec, now) ==
    {i \in spec.minInterval .. (spec.minInterval + MaxBackoff) :
        now + i <= spec.timeout}

----------------------------------------------------------------------------
(* State *)

VARIABLES
    managed,    \* the identifiers the host runs an operation on
    cloud,      \* cloud[v]: what the backing store holds for v
    dId,        \* dId[v]: d.Id() of the resource data
    dTimeout,   \* dTimeout[v]: d.Timeout(create) and d.Timeout(delete)
    op,         \* op[v]: the operation running on v
    pc,         \* pc[v]: where that operation stands
    conf,       \* conf[v]: the PollSpec of the running poll
    elapsed,    \* elapsed[v]: seconds since Poll was entered
    nrefresh,   \* nrefresh[v]: refresh calls of this Poll so far
    nsleep,     \* nsleep[v]: sleeps between refreshes so far
    tRefresh,   \* tRefresh[v]: elapsed time at the latest refresh
    queried,    \* queried[v]: identifier of the latest describe call
    resp,       \* resp[v]: answer of the latest describe call
    last,       \* last[v]: the latest RefreshResult
    ret,        \* ret[v]: what Poll returned
    opRet,      \* opRet[v]: what the operation returned
    reqErr      \* reqErr[v]: the error DeleteVirtualInterface answered with

envVars  == <<managed, cloud, dId, dTimeout>>
pollVars == <<conf, elapsed, nrefresh, nsleep, tRefresh, queried, resp, last, ret>>
vars == <<managed, cloud, dId, dTimeout, op, pc, conf, elapsed, nrefresh,
          nsleep, tRefresh, queried, resp, last, ret, opRet, reqErr>>

\* what an operation hands back: err is "nil" or "error" ("" while it runs)
OpReturn(obj, err) == [object |-> obj, err |-> err]
NotReturned == OpReturn(NoObject, "")

InitWith(ids, timeouts) ==
    /\ managed = ids
    /\ cloud \in [VifIds -> CloudStates]
    /\ \A v \in VifIds : v \notin ids => cloud[v] = Absent
    /\ dId = [v \in VifIds |-> v]
    /\ dTimeout \in [VifIds -> [create : timeouts, delete : timeouts]]
    /\ \A v \in VifIds : v \notin ids =>
          dTimeout[v] = [create |-> MinTimeout, delete |-> MinTimeout]
    /\ op = [v \in VifIds |-> "none"]
    /\ pc = [v \in VifIds |-> "idle"]
    /\ conf = [v \in VifIds |-> NoSpec]
    /\ elapsed = [v \in VifIds |-> 0]
    /\ nrefresh = [v \in VifIds |-> 0]
    /\ nsleep = [v \in VifIds |-> 0]
    /\ tRefresh = [v \in VifIds |-> 0]
    /\ queried = [v \in VifIds |-> ""]
    /\ resp = [v \in VifIds |-> NoOutput]
    /\ last = [v \in VifIds |-> NoResult]
    /\ ret = [v \in VifIds |-> NoReturn]
    /\ opRet = [v \in VifIds |-> NotReturned]
    /\ reqErr = [v \in VifIds |-> NoErr]

Init == InitWith({"dxvif-a"}, Timeouts)

----------------------------------------------------------------------------
(* The environment *)

\* the backing store moves the resource to another state; the poller sees
\* the store only in its describe call, so the moves made while it waits are
\* taken together, right before that call
EnvChange(v) ==
    /\ v \in managed
    /\ pc[v] = "refresh"
    /\ \E c \in CloudStates \ {cloud[v]} : cloud' = [cloud EXCEPT ![v] = c]
    /\ UNCHANGED <<managed, dId, dTimeout, op, pc, opRet, reqErr>>
    /\ UNCHANGED pollVars

----------------------------------------------------------------------------
(* The operations of the file *)

\* the tail of dxVirtualInterfaceDelete: the error of WaitForState, wrapped
DeleteReturn(r) ==
    IF r.err # NoErr THEN OpReturn(NoObject, "error") ELSE OpReturn(NoObject, "nil")

\* the tail of dxVirtualInterfaceWaitUntilAvailable
WaitUntilAvailableReturn(r) ==
    IF r.err # NoErr THEN OpReturn(NoObject, "error") ELSE OpReturn(NoObject, "nil")

WaiterReturn(o, r) ==
    IF o = "delete" THEN DeleteReturn(r) ELSE WaitUntilAvailableReturn(r)

\* the answers DeleteVirtualInterface can give
DeleteOutputs == {NoErr} \cup ApiErrors

\* the delete request's error handling returning nil for every error
DeleteRequestReturnAlwaysNil(err) == OpReturn(NoObject, "nil")

\* what dxVirtualInterfaceDelete returns when DeleteVirtualInterface fails
DeleteRequestReturn(err) ==
    IF isNoSuchDxVirtualInterfaceErr(err)
    THEN OpReturn(NoObject, "nil")
    ELSE OpReturn(NoObject, "error")

\* dxVirtualInterfaceDelete up to its call of WaitForState
dxVirtualInterfaceDelete(v) ==
    /\ v \in managed
    /\ pc[v] = "idle"
    /\ \E err \in DeleteOutputs :
          /\ reqErr' = [reqErr EXCEPT ![v] = err]
          /\ IF err # NoErr
             THEN /\ pc' = [pc EXCEPT ![v] = "done"]
                  /\ opRet' = [opRet EXCEPT ![v] = DeleteRequestReturn(err)]
                  /\ conf' = conf
             ELSE /\ pc' = [pc EXCEPT ![v] = "delay"]
                  /\ conf' = [conf EXCEPT ![v] = DeleteStateConf(dTimeout[v])]
                  /\ opRet' = opRet
    /\ op' = [op EXCEPT ![v] = "delete"]
    /\ UNCHANGED envVars
    /\ UNCHANGED <<elapsed, nrefresh, nsleep, tRefresh, queried, resp, last, ret>>

\* dxVirtualInterfaceWaitUntilAvailable up to its call of WaitForState
dxVirtualInterfaceWaitUntilAvailable(v) ==
    /\ v \in managed
    /\ pc[v] = "idle"
    /\ \E a \in WaitArgs :
          conf' = [conf EXCEPT ![v] =
                     AvailableStateConf(a.pending, a.target, dTimeout[v])]
    /\ pc' = [pc EXCEPT ![v] = "delay"]
    /\ op' = [op EXCEPT ![v] = "create"]
    /\ UNCHANGED envVars
    /\ UNCHANGED <<elapsed, nrefresh, nsleep, tRefresh, queried, resp, last, ret,
                   opRet, reqErr>>

\* what dxVirtualInterfaceRead returns for a refresh result, and the id it leaves
ReadReturn(res) ==
    IF res.err # NoErr THEN OpReturn(NoObject, "error")
    ELSE IF res.state \in TerminalStates THEN OpReturn(NoObject, "nil")
    ELSE OpReturn(res.object, "nil")

ReadId(id, res) ==
    IF res.err = NoErr /\ res.state \in TerminalStates THEN "" ELSE id

\* dxVirtualInterfaceRead
dxVirtualInterfaceRead(v) ==
    /\ v \in managed
    /\ pc[v] = "idle"
    /\ LET q == RefreshQueryId(dId[v]) IN
       \E out \in DescribeOutputs(q, cloud[q]) :
          /\ queried' = [queried EXCEPT ![v] = q]
          /\ resp' = [resp EXCEPT ![v] = out]
          /\ last' = [last EXCEPT ![v] = StateRefresh(out)]
          /\ opRet' = [opRet EXCEPT ![v] = ReadReturn(StateRefresh(out))]
          /\ dId' = [dId EXCEPT ![v] = ReadId(dId[v], StateRefresh(out))]
    /\ nrefresh' = [nrefresh EXCEPT ![v] = 1]
    /\ op' = [op EXCEPT ![v] = "read"]
    /\ pc' = [pc EXCEPT ![v] = "done"]
    /\ UNCHANGED <<managed, cloud, dTimeout>>
    /\ UNCHANGED <<conf, elapsed, nsleep, tRefresh, ret, reqErr>>

----------------------------------------------------------------------------
(* The poller (StateChangeConf.WaitForState) *)

\* Poll ends with return value r, and the waiter that called it returns
Finish(v, r) ==
    /\ ret' = [ret EXCEPT ![v] = r]
    /\ opRet' = [opRet EXCEPT ![v] = WaiterReturn(op[v], r)]
    /\ pc' = [pc EXCEPT ![v] = "done"]

\* step 1: wait initialDelay, within the timeout budget
PollDelay(v) ==
    /\ pc[v] = "delay"
    /\ IF conf[v].initialDelay <= conf[v].timeout
       THEN /\ elapsed' = [elapsed EXCEPT ![v] = conf[v].initialDelay]
            /\ pc' = [pc EXCEPT ![v] = "refresh"]
            /\ UNCHANGED <<ret, opRet>>
       ELSE /\ elapsed' = [elapsed EXCEPT ![v] = conf[v].timeout]
            /\ Finish(v, PollReturn(NoObject, TimeoutError))
    /\ UNCHANGED envVars
    /\ UNCHANGED <<op, conf, nrefresh, nsleep, tRefresh, queried, resp, last, reqErr>>

\* step 2: one refresh and its classification
PollRefresh(v) ==
    /\ pc[v] = "refresh"
    /\ LET q == RefreshQueryId(dId[v]) IN
       \E out \in DescribeOutputs(q, cloud[q]) :
          LET res == StateRefresh(out) IN
          /\ queried' = [queried EXCEPT ![v] = q]
          /\ resp' = [resp EXCEPT ![v] = out]
          /\ last' = [last EXCEPT ![v] = res]
          /\ IF Classify(conf[v], res) = "continue"
             THEN /\ pc' = [pc EXCEPT ![v] = "sleep"]
                  /\ UNCHANGED <<ret, opRet>>
             ELSE Finish(v, PollOutcome(conf[v], res))
    /\ nrefresh' = [nrefresh EXCEPT ![v] = @ + 1]
    /\ tRefresh' = [tRefresh EXCEPT ![v] = elapsed[v]]
    /\ UNCHANGED envVars
    /\ UNCHANGED <<op, conf, elapsed, nsleep, reqErr>>

\* steps 3 and 4: sleep an interval >= minInterval that stays within the
\* timeout, or fail with TimeoutError when the budget has no room for one
PollSleep(v) ==
    /\ pc[v] = "sleep"
    /\ IF SleepIntervals(conf[v], elapsed[v]) # {}
       THEN /\ \E i \in SleepIntervals(conf[v], elapsed[v]) :
                  elapsed' = [elapsed EXCEPT ![v] = @ + i]
            /\ nsleep' = [nsleep EXCEPT ![v] = @ + 1]
            /\ pc' = [pc EXCEPT ![v] = "refresh"]
            /\ UNCHANGED <<ret, opRet>>
       ELSE /\ elapsed' = [elapsed EXCEPT ![v] = conf[v].timeout]
            /\ nsleep' = nsleep
            /\ Finish(v, PollReturn(NoObject, TimeoutError))
    /\ UNCHANGED envVars
    /\ UNCHANGED <<op, conf, nrefresh, tRefresh, queried, resp, last, reqErr>>

----------------------------------------------------------------------------
(* Specifications *)

Next ==
    \/ \E v \in VifIds : EnvChange(v)
    \/ \E v \in VifIds : dxVirtualInterfaceDelete(v)
    \/ \E v \in VifIds : dxVirtualInterfaceWaitUntilAvailable(v)
    \/ \E v \in VifIds : dxVirtualInterfaceRead(v)
    \/ \E v \in VifIds : PollDelay(v)
    \/ \E v \in VifIds : PollRefresh(v)
    \/ \E v \in VifIds : PollSleep(v)

\* one resource, every configured timeout
Spec == Init /\ [][Next]_vars

\* two resources polled concurrently
PairTimeouts == {Delay + MinTimeout}
PairInit == InitWith(VifIds, PairTimeouts)
PairSpec == PairInit /\ [][Next]_vars

\* the poller is a running loop: a wait that can end ends, a call returns
Fairness == \A v \in VifIds : WF_vars(PollDelay(v) \/ PollRefresh(v) \/ PollSleep(v))
FairSpec == Spec /\ Fairness

----------------------------------------------------------------------------
(* Vocabulary of the properties *)

Waiters == {"delete", "create"}

\* a Poll has been entered on v
Polled(v) == op[v] \in Waiters /\ conf[v] # NoSpec

\* Poll on v has made at least one refresh
Refreshed(v) == Polled(v) /\ nrefresh[v] >= 1

\* the object the latest describe answer carries: its first interface, if any
DescribedObject(v) ==
    IF resp[v].err = NoErr /\ Len(resp[v].VirtualInterfaces) >= 1
    THEN resp[v].VirtualInterfaces[1]
    ELSE NoObject

\* the timeout configured for the operation running on v
ConfiguredTimeout(v) ==
    IF op[v] = "delete" THEN dTimeout[v].delete ELSE dTimeout[v].create

\* the poller still has room for a sleep of minInterval
BudgetRemains(v) == elapsed[v] + conf[v].minInterval <= conf[v].timeout

----------------------------------------------------------------------------
(* C1 *)

\* the first refresh of the Poll on v returned a state in target
FirstRefreshInTarget(v) ==
    /\ Refreshed(v)
    /\ nrefresh[v] = 1
    /\ last[v].err = NoErr
    /\ last[v].state \in conf[v].target

\* C1 as stated: when the first refresh returns a state in target, Poll
\* returns success with the object of that refresh after exactly one refresh
\* call, and no sleep or delay has been taken before it returns, the initial
\* delay included.
C1_NoDelayAtAll ==
    \A v \in VifIds : FirstRefreshInTarget(v) =>
        /\ pc[v] = "done"
        /\ ret[v] = PollReturn(DescribedObject(v), NoErr)
        /\ nsleep[v] = 0
        /\ elapsed[v] = 0

\* C1 amended: when the first refresh returns a state in target, Poll returns
\* success with the object of that refresh after exactly one refresh call and
\* without any sleep after it; the only wait before it returns is the initial
\* delay that precedes the first refresh (10 seconds in both waiters).
C1_FirstTargetReturnsAfterInitialDelayOnly ==
    \A v \in VifIds : FirstRefreshInTarget(v) =>
        /\ pc[v] = "done"
        /\ ret[v] = PollReturn(DescribedObject(v), NoErr)
        /\ opRet[v].err = "nil"
        /\ nsleep[v] = 0
        /\ elapsed[v] = Delay
        /\ tRefresh[v] = Delay

C1_Witness ==
    \E v \in VifIds :
        /\ FirstRefreshInTarget(v)
        /\ pc[v] = "done"
        /\ ~ret[v].object.nil
        /\ conf[v].initialDelay > 0
        /\ elapsed[v] < conf[v].timeout

----------------------------------------------------------------------------
(* C2 *)

\* every refresh of the Poll on v so far returned a pending state: a refresh
\* that returns anything else ends the Poll, so the latest one decides
StaysPending(v) ==
    /\ Polled(v)
    /\ \/ nrefresh[v] = 0
       \/ /\ last[v].err = NoErr
          /\ last[v].state \in conf[v].pending \ conf[v].target

\* C2: a Poll whose refreshes only ever return pending states ends, and ends
\* with TimeoutError once the configured create/delete timeout is used up: it
\* never returns success and never polls forever.
C2_PendingBeyondTimeoutFails ==
    /\ [](\A v \in VifIds : (StaysPending(v) /\ pc[v] = "done") =>
            /\ ret[v] = PollReturn(NoObject, TimeoutError)
            /\ opRet[v].err = "error"
            /\ elapsed[v] = ConfiguredTimeout(v))
    /\ \A v \in VifIds : Polled(v) ~> (pc[v] = "done")

C2_Witness ==
    \E v \in VifIds :
        /\ StaysPending(v)
        /\ pc[v] = "done"
        /\ nrefresh[v] >= 3
        /\ ret[v].err = TimeoutError

----------------------------------------------------------------------------
(* C3 *)

\* the latest refresh of the Poll on v returned, without error, an interface
\* whose state is neither pending nor target
UnexpectedState(v) ==
    /\ Refreshed(v)
    /\ ~DescribedObject(v).nil
    /\ DescribedObject(v).VirtualInterfaceState
           \notin (conf[v].pending \cup conf[v].target)

\* C3: on the first refresh that returns a state outside pending and target,
\* Poll fails with UnexpectedStateError naming that state, whatever is left
\* of the timeout, and makes no further refresh call.
C3_UnexpectedStateFailsAtOnce ==
    /\ [](\A v \in VifIds : UnexpectedState(v) =>
            /\ pc[v] = "done"
            /\ ret[v] = PollReturn(NoObject,
                  UnexpectedStateError(DescribedObject(v).VirtualInterfaceState))
            /\ opRet[v].err = "error")
    /\ [][\A v \in VifIds : UnexpectedState(v) =>
            /\ nrefresh'[v] = nrefresh[v]
            /\ ret'[v] = ret[v]]_vars

C3_Witness ==
    \E v \in VifIds :
        /\ UnexpectedState(v)
        /\ pc[v] = "done"
        /\ nrefresh[v] >= 2
        /\ BudgetRemains(v)

----------------------------------------------------------------------------
(* C4 *)

\* the latest describe call of the Poll on v failed with an error that is not
\* the not-found error
RefreshFailed(v) ==
    /\ Refreshed(v)
    /\ resp[v].err \in ApiErrors \ {ErrNoSuchVif}

\* C4: when a refresh call returns an error other than not-found, at any
\* position of the sequence, Poll fails with that same error, no refresh is
\* made after the failing one, and Delete / WaitUntilAvailable return an error.
C4_RefreshErrorPropagates ==
    /\ [](\A v \in VifIds : RefreshFailed(v) =>
            /\ pc[v] = "done"
            /\ ret[v] = PollReturn(NoObject, resp[v].err)
            /\ opRet[v].err = "error")
    /\ [][\A v \in VifIds : RefreshFailed(v) =>
            /\ nrefresh'[v] = nrefresh[v]
            /\ ret'[v] = ret[v]]_vars

C4_Witness ==
    \E v \in VifIds :
        /\ RefreshFailed(v)
        /\ pc[v] = "done"
        /\ nrefresh[v] >= 2
        /\ BudgetRemains(v)

----------------------------------------------------------------------------
(* C5 *)

\* the latest describe call of the Poll on v answered with an interface whose
\* state is in the target set
TargetObserved(v) ==
    /\ Refreshed(v)
    /\ ~DescribedObject(v).nil
    /\ DescribedObject(v).VirtualInterfaceState \in conf[v].target

\* the latest describe call of the delete waiter on v answered with an
\* interface in state deleted
DeletedObserved(v) ==
    /\ Refreshed(v)
    /\ op[v] = "delete"
    /\ ~DescribedObject(v).nil
    /\ DescribedObject(v).VirtualInterfaceState = StateDeleted

\* C5: after any number of pending states, the refresh that observes a target
\* state (deleted, for the delete waiter) makes Poll succeed with the object
\* of that very refresh, and no refresh call follows it.
C5_TargetAfterPendingSucceeds ==
    /\ [](\A v \in VifIds : (TargetObserved(v) \/ DeletedObserved(v)) =>
            /\ pc[v] = "done"
            /\ ret[v] = PollReturn(DescribedObject(v), NoErr)
            /\ ret[v].object.VirtualInterfaceState \in conf[v].target
            /\ opRet[v].err = "nil")
    /\ [][\A v \in VifIds : (TargetObserved(v) \/ DeletedObserved(v)) =>
            /\ nrefresh'[v] = nrefresh[v]
            /\ ret'[v] = ret[v]]_vars

C5_Witness ==
    \E v \in VifIds :
        /\ DeletedObserved(v)
        /\ pc[v] = "done"
        /\ nrefresh[v] = 3
        /\ ret[v].object = Vif(v, StateDeleted)

----------------------------------------------------------------------------
(* C6 *)

\* the resource was already gone at the first refresh of the delete waiter:
\* the describe call failed with not-found or listed no interface
AbsentOnFirstRefresh(v) ==
    /\ Refreshed(v)
    /\ op[v] = "delete"
    /\ nrefresh[v] = 1
    /\ resp[v] \in {ApiOutput(<<>>, ErrNoSuchVif), ApiOutput(<<>>, NoErr)}

\* C6: when the resource is already absent on the first refresh of a Poll
\* whose target is {deleted}, Poll succeeds with no object; it fails with no
\* not-found, unexpected-state or timeout error.
C6_AlreadyAbsentSucceeds ==
    \A v \in VifIds : AbsentOnFirstRefresh(v) =>
        /\ conf[v].target = {StateDeleted}
        /\ last[v] = RefreshResult(NoObject, StateDeleted, NoErr)
        /\ pc[v] = "done"
        /\ ret[v] = PollReturn(NoObject, NoErr)
        /\ opRet[v] = OpReturn(NoObject, "nil")

C6_Witness ==
    \E v \in VifIds :
        /\ AbsentOnFirstRefresh(v)
        /\ resp[v].err = ErrNoSuchVif
        /\ pc[v] = "done"
        /\ cloud[v] = Absent

----------------------------------------------------------------------------
(* C7 *)

\* C7: the refresh function never reports an absent resource as an error: a
\* not-found failure or an empty list gives (no object, "deleted", no error);
\* it returns an error only for a describe failure that is not not-found, and
\* that error itself; otherwise it returns the first interface with its state.
C7_RefreshMapsAbsentToDeleted ==
    \A v \in VifIds : nrefresh[v] >= 1 =>
        /\ (resp[v].err = ErrNoSuchVif
              \/ (resp[v].err = NoErr /\ resp[v].VirtualInterfaces = <<>>))
             => last[v] = RefreshResult(NoObject, "deleted", NoErr)
        /\ (last[v].err # NoErr) <=> (resp[v].err \in {ErrClient, ErrServer})
        /\ last[v].err # NoErr => last[v] = RefreshResult(NoObject, "", resp[v].err)
        /\ (resp[v].err = NoErr /\ resp[v].VirtualInterfaces # <<>>)
             => /\ last[v].object = Head(resp[v].VirtualInterfaces)
                /\ last[v].state = Head(resp[v].VirtualInterfaces).VirtualInterfaceState
                /\ last[v].err = NoErr

C7_Witness ==
    \E v \in VifIds :
        /\ nrefresh[v] >= 1
        /\ resp[v] = ApiOutput(<<>>, NoErr)
        /\ last[v].state = "deleted"

----------------------------------------------------------------------------
(* C8 *)

----------------------------------------------------------------------------
(* C9 *)

----------------------------------------------------------------------------
(* C10 *)

\* the state the operation on v owns
Local(v) ==
    <<op[v], pc[v], conf[v], elapsed[v], nrefresh[v], nsleep[v], tRefresh[v],
      queried[v], resp[v], last[v], ret[v], opRet[v], dId[v], reqErr[v]>>

\* C10: pollers of different resources never interact: a refresh of the
\* Poll on v describes v alone and is answered from the state of v alone, a
\* step of one operation leaves the state owned by every other operation and
\* the backing store untouched, and what a Poll returns is decided by its own
\* PollSpec and the answers about its own resource.
C10_PollersDoNotInteract ==
    /\ [](\A v \in VifIds : nrefresh[v] >= 1 =>
            /\ queried[v] = v
            /\ \A i \in DOMAIN resp[v].VirtualInterfaces :
                   resp[v].VirtualInterfaces[i].VirtualInterfaceId = v)
    /\ [][\A v \in VifIds : nrefresh'[v] # nrefresh[v] =>
            resp'[v] \in DescribeOutputs(v, cloud[v])]_vars
    /\ [][\A v, w \in VifIds : (v # w /\ Local(v)' # Local(v)) =>
            /\ Local(w)' = Local(w)
            /\ cloud' = cloud]_vars
    /\ [](\A v \in VifIds : (Refreshed(v) /\ pc[v] = "done") =>
            \/ ret[v].err = TimeoutError /\ last[v].state \in conf[v].pending
            \/ ret[v].err = last[v].err /\ last[v].err # NoErr
            \/ ret[v].err = NoErr /\ last[v].state \in conf[v].target
            \/ /\ ret[v].err = UnexpectedStateError(last[v].state)
               /\ last[v].state \notin conf[v].pending \cup conf[v].target)

C10_Witness ==
    \E v, w \in VifIds :
        /\ v # w
        /\ Refreshed(v) /\ Refreshed(w)
        /\ pc[v] = "sleep" /\ pc[w] = "done"
        /\ cloud[v] # cloud[w]
        /\ ret[w].err = NoErr
        /\ last[v].state # last[w].state

----------------------------------------------------------------------------
(* C11 *)

\* dxVirtualInterfaceDelete on v has returned
DeleteReturned(v) == op[v] = "delete" /\ pc[v] = "done"

\* C11: dxVirtualInterfaceDelete swallows one failure only, a delete request
\* answered with not-found: it then returns success without any refresh or
\* poll.  A request failing with any other error, and a poll ending in a
\* refresh error, UnexpectedStateError or TimeoutError, make it return an
\* error.
C11_OnlyNotFoundRequestSwallowed ==
    \A v \in VifIds : DeleteReturned(v) =>
        /\ reqErr[v] = ErrNoSuchVif =>
              /\ opRet[v] = OpReturn(NoObject, "nil")
              /\ nrefresh[v] = 0 /\ queried[v] = "" /\ elapsed[v] = 0
              /\ ~Polled(v)
        /\ reqErr[v] \in {ErrClient, ErrServer} =>
              /\ opRet[v].err = "error"
              /\ nrefresh[v] = 0
              /\ ~Polled(v)
        /\ reqErr[v] = NoErr => Polled(v)
        /\ (Polled(v) /\ ret[v].err # NoErr) =>
              /\ opRet[v].err = "error"
              /\ \/ ret[v].err = TimeoutError
                 \/ ret[v].err = UnexpectedStateError(last[v].state)
                 \/ ret[v].err \in {ErrClient, ErrServer}
        /\ opRet[v].err = "nil" =>
              \/ reqErr[v] = ErrNoSuchVif
              \/ reqErr[v] = NoErr /\ ret[v].err = NoErr /\ nrefresh[v] >= 1

C11_Witness ==
    \E v \in VifIds :
        /\ DeleteReturned(v)
        /\ reqErr[v] = ErrNoSuchVif
        /\ opRet[v].err = "nil"
        /\ nrefresh[v] = 0
        /\ cloud[v] = Absent

----------------------------------------------------------------------------
(* C12 *)

\* the answer of the describe call of dxVirtualInterfaceRead on v reports the
\* resource as deleted, deleting or rejected, or as not there at all
ReadSawGone(v) ==
    \/ resp[v].err = ErrNoSuchVif
    \/ resp[v].err = NoErr /\ resp[v].VirtualInterfaces = <<>>
    \/ /\ resp[v].err = NoErr
       /\ resp[v].VirtualInterfaces # <<>>
       /\ Head(resp[v].VirtualInterfaces).VirtualInterfaceState
              \in {"deleted", "deleting", "rejected"}

\* C12: dxVirtualInterfaceRead makes exactly one refresh and never polls.
\* It clears the resource ID and returns (no interface, no error) exactly
\* when that refresh reports deleted, deleting or rejected (not-found and the
\* empty list included); for every other state it returns the interface and
\* leaves the ID; on a refresh error it returns an error and leaves the ID.
C12_ReadClearsIdOnTerminalState ==
    \A v \in VifIds : op[v] = "read" =>
        /\ pc[v] = "done"
        /\ nrefresh[v] = 1 /\ nsleep[v] = 0 /\ elapsed[v] = 0
        /\ conf[v] = NoSpec /\ ret[v] = NoReturn
        /\ queried[v] = v
        /\ (dId[v] = "") <=> ReadSawGone(v)
        /\ dId[v] # "" => dId[v] = v
        /\ ReadSawGone(v) => opRet[v] = OpReturn(NoObject, "nil")
        /\ resp[v].err \in {ErrClient, ErrServer} =>
              opRet[v] = OpReturn(NoObject, "error")
        /\ (resp[v].err = NoErr /\ ~ReadSawGone(v)) =>
              opRet[v] = OpReturn(Head(resp[v].VirtualInterfaces), "nil")

C12_Witness ==
    \E v \in VifIds :
        /\ op[v] = "read"
        /\ pc[v] = "done"
        /\ dId[v] = ""
        /\ last[v].state = StateRejected
        /\ ~last[v].object.nil

----------------------------------------------------------------------------
(* C13 *)

\* the latest describe call of the delete on v answered with an interface in
\* one of the seven states the delete waiter lists as pending
StillThere(v) ==
    /\ op[v] = "delete"
    /\ Refreshed(v)
    /\ ~DescribedObject(v).nil
    /\ DescribedObject(v).VirtualInterfaceState
           \in {"available", "confirming", "deleting", "down", "pending",
                "rejected", "verifying"}

\* the latest describe call of the delete on v reported the resource deleted:
\* an interface in state deleted, the not-found error or an empty list
GoneObserved(v) ==
    /\ op[v] = "delete"
    /\ Refreshed(v)
    /\ \/ resp[v].err = ErrNoSuchVif
       \/ resp[v].err = NoErr /\ resp[v].VirtualInterfaces = <<>>
       \/ /\ ~DescribedObject(v).nil
          /\ DescribedObject(v).VirtualInterfaceState = "deleted"

\* C13: dxVirtualInterfaceDelete returns success only if the delete request
\* was answered with not-found or, after an accepted request, a refresh
\* observed state deleted.  It never returns success when the last observed
\* state is available, confirming, deleting, down, pending, rejected or
\* verifying: an interface that stays rejected or deleting, which Read treats
\* as gone, makes Delete time out.
C13_DeleteSucceedsOnlyWhenDeleted ==
    \A v \in VifIds : DeleteReturned(v) =>
        /\ opRet[v].err = "nil" =>
              \/ reqErr[v] = ErrNoSuchVif /\ nrefresh[v] = 0
              \/ reqErr[v] = NoErr /\ GoneObserved(v) /\ last[v].state = "deleted"
        /\ StillThere(v) =>
              /\ opRet[v].err = "error"
              /\ ret[v] = PollReturn(NoObject, TimeoutError)
              /\ elapsed[v] = dTimeout[v].delete

C13_Witness ==
    \E v \in VifIds :
        /\ DeleteReturned(v)
        /\ StillThere(v)
        /\ last[v].state = StateRejected
        /\ last[v].state \in TerminalStates
        /\ nrefresh[v] >= 2
        /\ opRet[v].err = "error"

----------------------------------------------------------------------------
(* C14 *)

\* Poll on v has returned
PollReturned(v) == Polled(v) /\ pc[v] = "done"

\* the four ways a Poll ends, each with what the refreshes showed
EndsInSuccess(v) ==
    /\ ret[v].err = NoErr
    /\ nrefresh[v] >= 1
    /\ ret[v].object = DescribedObject(v)
    /\ resp[v].err \in {NoErr, ErrNoSuchVif}
    /\ last[v].state \in conf[v].target

EndsInRefreshError(v) ==
    /\ ret[v].err \in {ErrClient, ErrServer}
    /\ nrefresh[v] >= 1
    /\ ret[v].err = resp[v].err

EndsInUnexpectedState(v) ==
    /\ ret[v].err = UnexpectedStateError(last[v].state)
    /\ nrefresh[v] >= 1
    /\ resp[v].err \in {NoErr, ErrNoSuchVif}
    /\ last[v].state \notin conf[v].pending \cup conf[v].target

EndsInTimeout(v) ==
    /\ ret[v].err = TimeoutError
    /\ elapsed[v] = conf[v].timeout
    /\ resp[v].err \in {NoErr, ErrNoSuchVif}
    /\ nrefresh[v] >= 1 => last[v].state \in conf[v].pending

Outcomes(v) ==
    {o \in {"success", "refresh error", "unexpected state", "timeout"} :
        \/ o = "success" /\ EndsInSuccess(v)
        \/ o = "refresh error" /\ EndsInRefreshError(v)
        \/ o = "unexpected state" /\ EndsInUnexpectedState(v)
        \/ o = "timeout" /\ EndsInTimeout(v)}

\* C14: every Poll with a finite timeout ends, whatever the refreshes
\* return, in exactly one of four outcomes: success on a target state, the
\* refresh error, UnexpectedStateError or TimeoutError; once it has ended it
\* makes no further refresh call.
C14_PollTerminatesWithOneOutcome ==
    /\ \A v \in VifIds : Polled(v) ~> PollReturned(v)
    /\ [](\A v \in VifIds : PollReturned(v) =>
            /\ Cardinality(Outcomes(v)) = 1
            /\ nrefresh[v] <= 1 + (conf[v].timeout \div conf[v].minInterval))
    /\ [][\A v \in VifIds : PollReturned(v) =>
            /\ PollReturned(v)'
            /\ nrefresh'[v] = nrefresh[v]
            /\ ret'[v] = ret[v]
            /\ opRet'[v] = opRet[v]]_vars

C14_Witness ==
    \E v \in VifIds :
        /\ PollReturned(v)
        /\ op[v] = "create"
        /\ Outcomes(v) = {"success"}
        /\ nrefresh[v] = 2
        /\ elapsed[v] < conf[v].timeout

====
